---- MODULE Spec2Model ----
(***************************************************************************)
(* Model of the annotator bucket bar (controller and position clusterer),  *)
(* the sidebar "links" store module and the tag / mention handling of the  *)
(* AnnotationEditor component.                                             *)
(*                                                                         *)
(* Pixel offsets are kept on a grid of even numbers so that the midpoint   *)
(* of two offsets is again an integer and (a + b) \div 2 is exact.         *)
(***************************************************************************)
EXTENDS Integers, Sequences, FiniteSets, TLC

VARIABLES
    \* PositionClusterer, called on its own
    positions,        \* input: sequence of AnchorPosition
    viewportHeight,   \* input: height of the viewport
    result            \* output, NotComputed before the call

clustererVars == <<positions, viewportHeight, result>>

VARIABLES
    \* BucketBar and the document around it
    mountChildren,    \* child nodes of the mount point `container`, in order
    rendered,         \* what is rendered into this._bucketsContainer
    callbackFields,   \* this._onFocusAnnotations, ... as set by the constructor
    innerHeight,      \* current height of the viewport
    calls,            \* invocations of the injected callbacks, in order
    destroyCalls,     \* number of destroy() calls so far
    lastUpdate,       \* most recent update() call: its input and outcome
    lastGood,         \* input of the most recent update() call that returned
    everThrew         \* whether some update() call has thrown

barVars == <<mountChildren, rendered, callbackFields, innerHeight, calls,
             destroyCalls, lastUpdate, lastGood, everThrew>>

VARIABLES
    \* links store module
    links,            \* the module's state: Null, or Some(map from name to template)
    lastNewLinks,     \* newLinks of the most recent UPDATE_LINKS action, if any
    previousLinks,    \* the state the most recent UPDATE_LINKS action replaced
    linkResult        \* the most recent getLink call: its arguments and outcome

linksVars == <<links, lastNewLinks, previousLinks, linkResult>>

VARIABLES
    \* AnnotationEditor: tags of the draft
    draft,            \* the annotation's draft in the store
    tagsStored,       \* tag lists handed to tagsService.store, in order
    tagCall           \* the most recent onAddTag / onRemoveTag call and its result

editorVars == <<draft, tagsStored, tagCall>>

VARIABLES
    \* AnnotationEditor: users that can be mentioned
    group,            \* the annotation's group
    pending,          \* mention-users requests in flight
    userList,         \* the userList state shown by the AutocompleteList
    fetches,          \* number of requests started so far
    rejected          \* whether some request has been rejected

mentionVars == <<group, pending, userList, fetches, rejected>>

vars == <<clustererVars, barVars, linksVars, editorVars, mentionVars>>

IdleClusterer == positions = <<>> /\ viewportHeight = 4 /\ result = [kind |-> "none"]
IdleBar ==
    /\ mountChildren = <<>> /\ rendered = [kind |-> "none"] /\ callbackFields = <<>>
    /\ innerHeight = 4 /\ calls = <<>> /\ destroyCalls = 0
    /\ lastUpdate = <<>> /\ lastGood = <<>> /\ everThrew = FALSE

(***************************************************************************)
(* Bounds                                                                  *)
(***************************************************************************)
MaxLen == 2          \* longest anchor list handed to the clusterer
MaxCoord == 3        \* largest grid index of a pixel offset (offset 2 * index)
MaxCalls == 1        \* longest recorded log of callback invocations
MaxDestroy == 2      \* most destroy() calls on one BucketBar
MaxStored == 2       \* longest recorded log of tagsService.store calls
MaxFetches == 3      \* most mention-users requests started by one editor

(***************************************************************************)
(* Data model                                                              *)
(***************************************************************************)
TagOrder == <<"a", "b">>
Tags == {TagOrder[i] : i \in 1..Len(TagOrder)}

Coords == {2 * k : k \in (-1)..MaxCoord}
ViewportHeights == {4, 6}

AnchorPosition == [tags : (SUBSET Tags) \ {{}}, top : Coords, bottom : Coords]
WellFormedAnchor(a) == a.top <= a.bottom
WellFormedAnchors == {a \in AnchorPosition : WellFormedAnchor(a)}

SeqsUpTo(S, n) == UNION {[1..k -> S] : k \in 0..n}

\* Outcomes of a call other than a returned bucket set.
NotComputed == [kind |-> "none"]
ValidationError == [kind |-> "throw"]

(***************************************************************************)
(* PositionClusterer                                                       *)
(***************************************************************************)
MERGE_THRESHOLD == 4

Abs(x) == IF x < 0 THEN -x ELSE x
Min(S) == CHOOSE x \in S : \A y \in S : x <= y
Max(S) == CHOOSE x \in S : \A y \in S : x >= y

FullyAbove(a) == a.bottom < 0
FullyBelow(a, vh) == a.top > vh
\* Faulty variant: only anchors lying wholly inside the viewport count as visible.
IsVisibleInsideOnly(a, vh) == a.top >= 0 /\ a.bottom <= vh
IsVisible(a, vh) == ~FullyAbove(a) /\ ~FullyBelow(a, vh)

\* Indices of the visible input anchors, in input order.
RECURSIVE VisibleFrom(_, _, _)
VisibleFrom(ps, vh, i) ==
    IF i > Len(ps) THEN <<>>
    ELSE (IF IsVisible(ps[i], vh) THEN <<i>> ELSE <<>>) \o VisibleFrom(ps, vh, i + 1)

VisibleIdx(ps, vh) == VisibleFrom(ps, vh, 1)

\* Stable insertion of index i into a sequence of indices sorted by top.
InsertByTop(ps, i, sorted) ==
    LET k == Cardinality({j \in 1..Len(sorted) : ps[sorted[j]].top <= ps[i].top})
    IN  SubSeq(sorted, 1, k) \o <<i>> \o SubSeq(sorted, k + 1, Len(sorted))

RECURSIVE SortByTop(_, _)
SortByTop(ps, idx) ==
    IF idx = <<>> THEN <<>>
    ELSE InsertByTop(ps, idx[Len(idx)], SortByTop(ps, SubSeq(idx, 1, Len(idx) - 1)))

\* Running representative position of an open bucket (a sequence of indices).
GroupTop(ps, g) == Min({ps[g[j]].top : j \in 1..Len(g)})
GroupBottom(ps, g) == Max({ps[g[j]].bottom : j \in 1..Len(g)})
GroupPosition(ps, g) == (GroupTop(ps, g) + GroupBottom(ps, g)) \div 2

WithinThreshold(top, position) == Abs(top - position) < MERGE_THRESHOLD

\* The sweep: groups closed so far, with the open bucket as the last group.
RECURSIVE Sweep(_, _, _)
Sweep(ps, sorted, groups) ==
    IF sorted = <<>> THEN groups
    ELSE LET i == Head(sorted)
             n == Len(groups)
         IN  IF n > 0 /\ WithinThreshold(ps[i].top, GroupPosition(ps, groups[n]))
             THEN Sweep(ps, Tail(sorted), [groups EXCEPT ![n] = Append(@, i)])
             ELSE Sweep(ps, Tail(sorted), Append(groups, <<i>>))

Groups(ps, vh) == Sweep(ps, SortByTop(ps, VisibleIdx(ps, vh)), <<>>)

\* De-duplicated union of tags in first-seen order.
RECURSIVE AddTags(_, _, _)
AddTags(tags, set, k) ==
    IF k > Len(TagOrder) THEN tags
    ELSE LET t == TagOrder[k]
             seen == \E j \in 1..Len(tags) : tags[j] = t
         IN  AddTags(IF t \in set /\ ~seen THEN Append(tags, t) ELSE tags, set, k + 1)

RECURSIVE GroupTags(_, _)
GroupTags(ps, g) ==
    IF g = <<>> THEN <<>>
    ELSE AddTags(GroupTags(ps, SubSeq(g, 1, Len(g) - 1)), ps[g[Len(g)]].tags, 1)

ToBucket(ps, g) == [position |-> GroupPosition(ps, g), tags |-> GroupTags(ps, g)]

AboveTags(ps) == UNION {ps[i].tags : i \in {j \in 1..Len(ps) : FullyAbove(ps[j])}}
BelowTags(ps, vh) == UNION {ps[i].tags : i \in {j \in 1..Len(ps) : FullyBelow(ps[j], vh)}}

computeBuckets(ps, vh) ==
    IF \E i \in 1..Len(ps) : ~WellFormedAnchor(ps[i])
    THEN ValidationError
    ELSE LET gs == Groups(ps, vh)
         IN  [kind    |-> "return",
              above   |-> AboveTags(ps),
              below   |-> BelowTags(ps, vh),
              buckets |-> [k \in 1..Len(gs) |-> ToBucket(ps, gs[k])]]

(***************************************************************************)
(* Clusterer specification: every bounded input, then one call.            *)
(***************************************************************************)
IdleLinks ==
    links = <<>> /\ lastNewLinks = <<>> /\ previousLinks = <<>> /\ linkResult = <<>>

IdleEditor == draft = <<>> /\ tagsStored = <<>> /\ tagCall = <<>>
IdleMentions ==
    group = "" /\ pending = {} /\ userList = <<>> /\ fetches = 0 /\ rejected = FALSE

InitClusterer ==
    /\ IdleBar /\ IdleLinks /\ IdleEditor /\ IdleMentions
    /\ positions \in SeqsUpTo(WellFormedAnchors, MaxLen)
    /\ viewportHeight \in ViewportHeights
    /\ result = NotComputed

Compute ==
    /\ result = NotComputed
    /\ result' = computeBuckets(positions, viewportHeight)
    /\ UNCHANGED <<positions, viewportHeight, barVars, linksVars, editorVars, mentionVars>>

NextClusterer == Compute

SpecClusterer == InitClusterer /\ [][NextClusterer]_vars

Computed == result.kind = "return"

TagInBucket(t, b) == \E j \in 1..Len(b.tags) : b.tags[j] = t
BucketsWith(t) == {k \in 1..Len(result.buckets) : TagInBucket(t, result.buckets[k])}
InputTags == UNION {positions[i].tags : i \in 1..Len(positions)}
Carriers(t) == {i \in 1..Len(positions) : t \in positions[i].tags}

\* In how many of the three outputs (buckets, above, below) tag t appears.
OutputsWith(t) ==
    (IF BucketsWith(t) # {} THEN 1 ELSE 0)
    + (IF t \in result.above THEN 1 ELSE 0)
    + (IF t \in result.below THEN 1 ELSE 0)

\* In how many places anchor i itself was put by the clusterer.
GroupsWith(i) ==
    LET gs == Groups(positions, viewportHeight)
    IN  {k \in 1..Len(gs) : \E j \in 1..Len(gs[k]) : gs[k][j] = i}
PlacesOf(i) ==
    Cardinality(GroupsWith(i))
    + (IF FullyAbove(positions[i]) THEN 1 ELSE 0)
    + (IF FullyBelow(positions[i], viewportHeight) THEN 1 ELSE 0)

OrderPreservation ==
    Computed => \A j, k \in 1..Len(result.buckets) :
                    j < k => result.buckets[j].position <= result.buckets[k].position

SameGroup(i, j) == GroupsWith(i) = GroupsWith(j)

\* C3: two visible anchors adjacent in the top-sorted order share a bucket when
\* their tops differ by less than the merge threshold and are in different
\* buckets when their tops differ by more than the threshold.
ThresholdCorrectness ==
    Computed =>
        LET sorted == SortByTop(positions, VisibleIdx(positions, viewportHeight))
        IN  \A k \in 1..(Len(sorted) - 1) :
                LET diff == positions[sorted[k + 1]].top - positions[sorted[k]].top
                IN  /\ diff < MERGE_THRESHOLD => SameGroup(sorted[k], sorted[k + 1])
                    /\ diff > MERGE_THRESHOLD => ~SameGroup(sorted[k], sorted[k + 1])

(***************************************************************************)
(* BucketBar                                                               *)
(***************************************************************************)
BucketsContainer == "bucketsContainer"     \* the <div> the constructor creates
InitialSiblings == {<<>>, <<"x">>}         \* what the mount point held before
PageNodes == {"y"}                         \* nodes the page adds and removes later

\* The callbacks injected at construction (BucketBarOptions).
Options == [onFocusAnnotations               |-> "focusCallback",
            onScrollToClosestOffScreenAnchor |-> "scrollCallback",
            onSelectAnnotations              |-> "selectCallback"]

NoBar == [kind |-> "none"]                 \* render(null, ...)

\* Anchor lists handed to update(): the scenario of the specification scaled to
\* the grid (A above, B and C close together, D straddling the lower edge, E
\* below), and an anchor M with top > bottom.
AnchorA == [tags |-> {"a"}, top |-> -2, bottom |-> -2]
AnchorB == [tags |-> {"b"}, top |-> 0, bottom |-> 2]
AnchorC == [tags |-> {"a", "b"}, top |-> 2, bottom |-> 2]
AnchorD == [tags |-> {"a"}, top |-> 6, bottom |-> 8]
AnchorE == [tags |-> {"b"}, top |-> 8, bottom |-> 8]
AnchorM == [tags |-> {"a"}, top |-> 4, bottom |-> 2]
UpdateInputs == {<<>>, <<AnchorB, AnchorC>>, <<AnchorE, AnchorD>>,
                 <<AnchorA, AnchorB, AnchorC, AnchorD, AnchorE>>,
                 <<AnchorB, AnchorM>>}

\* Faulty variant: update() that computes the buckets and does not render them.
updateWithoutRender(ps, vh, current) == current
\* Faulty variant: update() that clears the bar when clustering fails.
updateClearingOnFailure(ps, vh, current) ==
    LET buckets == computeBuckets(ps, vh)
    IN  IF buckets = ValidationError THEN NoBar ELSE buckets
\* What update(positions) leaves rendered in the container: computeBuckets runs
\* first, and when it throws render() is not reached.
update(ps, vh, current) ==
    LET buckets == computeBuckets(ps, vh)
    IN  IF buckets = ValidationError THEN current ELSE buckets

RemoveNode(children, n) == SelectSeq(children, LAMBDA c : c # n)
\* Faulty variant: destroy() that empties the mount point.
destroyClearingMountPoint(children) == <<>>
\* this._bucketsContainer.remove(): detaches the node from its parent, if any.
destroy(children) == RemoveNode(children, BucketsContainer)

\* Handlers passed to <Buckets>: each forwards to one field of the controller.
Invocation(callback, args) == [callback |-> callback, args |-> args]
onFocusAnnotations(fields, tags) ==
    Invocation(fields.onFocusAnnotations, <<tags>>)
onScrollToClosestOffScreenAnchor(fields, tags, direction) ==
    Invocation(fields.onScrollToClosestOffScreenAnchor, <<tags, direction>>)
\* Faulty variant: the select handler wired to the focus callback.
onSelectAnnotationsMiswired(fields, tags, toggle) ==
    Invocation(fields.onFocusAnnotations, <<tags>>)
onSelectAnnotations(fields, tags, toggle) ==
    Invocation(fields.onSelectAnnotations, <<tags, toggle>>)

Attached == \E j \in 1..Len(mountChildren) : mountChildren[j] = BucketsContainer
Shown == Attached /\ rendered.kind = "return"
BucketCount == IF rendered.kind = "return" THEN Len(rendered.buckets) ELSE 0

\* State after `new BucketBar(container, options)`: the container <div> appended
\* to the mount point and the bar rendered from the empty position list.
InitBar ==
    /\ IdleClusterer /\ IdleLinks /\ IdleEditor /\ IdleMentions
    /\ \E before \in InitialSiblings : mountChildren = Append(before, BucketsContainer)
    /\ innerHeight \in ViewportHeights
    /\ rendered = update(<<>>, innerHeight, NoBar)
    /\ callbackFields = Options
    /\ calls = <<>>
    /\ destroyCalls = 0
    /\ lastUpdate = [positions |-> <<>>, height |-> innerHeight, outcome |-> "return"]
    /\ lastGood = [positions |-> <<>>, height |-> innerHeight]
    /\ everThrew = FALSE

Update(ps) ==
    LET threw == computeBuckets(ps, innerHeight) = ValidationError
    IN  /\ rendered' = update(ps, innerHeight, rendered)
        /\ lastUpdate' = [positions |-> ps, height |-> innerHeight,
                          outcome |-> IF threw THEN "throw" ELSE "return"]
        /\ lastGood' = IF threw THEN lastGood
                       ELSE [positions |-> ps, height |-> innerHeight]
        /\ everThrew' = (everThrew \/ threw)
        /\ UNCHANGED <<mountChildren, callbackFields, innerHeight, calls, destroyCalls>>
        /\ UNCHANGED <<clustererVars, linksVars, editorVars, mentionVars>>

Destroy ==
    /\ destroyCalls < MaxDestroy
    /\ rendered' = NoBar
    /\ mountChildren' = destroy(mountChildren)
    /\ destroyCalls' = destroyCalls + 1
    /\ UNCHANGED <<callbackFields, innerHeight, calls, lastUpdate, lastGood, everThrew>>
    /\ UNCHANGED <<clustererVars, linksVars, editorVars, mentionVars>>

Call(invocation) ==
    /\ Len(calls) < MaxCalls
    /\ calls' = Append(calls, invocation)
    /\ UNCHANGED <<mountChildren, rendered, callbackFields, innerHeight,
                   destroyCalls, lastUpdate, lastGood, everThrew>>
    /\ UNCHANGED <<clustererVars, linksVars, editorVars, mentionVars>>

\* The user acts on the rendered bar.
ClickAbove ==
    /\ Shown /\ rendered.above # {}
    /\ Call(onScrollToClosestOffScreenAnchor(callbackFields, rendered.above, "up"))

ClickBelow ==
    /\ Shown /\ rendered.below # {}
    /\ Call(onScrollToClosestOffScreenAnchor(callbackFields, rendered.below, "down"))

ClickBucket(k, toggle) ==
    /\ Shown
    /\ Call(onSelectAnnotations(callbackFields, rendered.buckets[k].tags, toggle))

HoverBucket(k) ==
    /\ Shown
    /\ Call(onFocusAnnotations(callbackFields, rendered.buckets[k].tags))

\* The environment: the window is resized, the page adds or removes its own nodes.
Resize(h) ==
    /\ h # innerHeight
    /\ innerHeight' = h
    /\ UNCHANGED <<mountChildren, rendered, callbackFields, calls, destroyCalls,
                   lastUpdate, lastGood, everThrew>>
    /\ UNCHANGED <<clustererVars, linksVars, editorVars, mentionVars>>

PageAppends(n) ==
    /\ \A j \in 1..Len(mountChildren) : mountChildren[j] # n
    /\ mountChildren' = Append(mountChildren, n)
    /\ UNCHANGED <<rendered, callbackFields, innerHeight, calls, destroyCalls,
                   lastUpdate, lastGood, everThrew>>
    /\ UNCHANGED <<clustererVars, linksVars, editorVars, mentionVars>>

PageRemoves(n) ==
    /\ \E j \in 1..Len(mountChildren) : mountChildren[j] = n
    /\ mountChildren' = RemoveNode(mountChildren, n)
    /\ UNCHANGED <<rendered, callbackFields, innerHeight, calls, destroyCalls,
                   lastUpdate, lastGood, everThrew>>
    /\ UNCHANGED <<clustererVars, linksVars, editorVars, mentionVars>>

UpdateCall == \E ps \in UpdateInputs : Update(ps)
BucketClick == \E k \in 1..BucketCount, toggle \in BOOLEAN : ClickBucket(k, toggle)
BucketHover == \E k \in 1..BucketCount : HoverBucket(k)
WindowResize == \E h \in ViewportHeights : Resize(h)
PageEdit == \E n \in PageNodes : PageAppends(n) \/ PageRemoves(n)

NextBar ==
    \/ UpdateCall
    \/ Destroy
    \/ ClickAbove
    \/ ClickBelow
    \/ BucketClick
    \/ BucketHover
    \/ WindowResize
    \/ PageEdit

SpecBar == InitBar /\ [][NextBar]_vars

Mounted == destroyCalls = 0
ClusteringOf(call) == computeBuckets(call.positions, call.height)
FullScenario == <<AnchorA, AnchorB, AnchorC, AnchorD, AnchorE>>

ScrollUp(tags) == Invocation(Options.onScrollToClosestOffScreenAnchor, <<tags, "up">>)
ScrollDown(tags) == Invocation(Options.onScrollToClosestOffScreenAnchor, <<tags, "down">>)

\* C5: a click on the "above" indicator adds exactly one invocation, of the
\* injected onScrollToClosestOffScreenAnchor with the above tags and "up" ("down"
\* and the below tags for the "below" indicator); a click on a bucket invokes only
\* the injected onSelectAnnotations and a hover only the injected
\* onFocusAnnotations, each once with the bucket's tags; the callback fields never
\* change after construction.
HandlersCallOwnCallback ==
    [][ /\ ClickAbove => calls' = Append(calls, ScrollUp(rendered.above))
        /\ ClickBelow => calls' = Append(calls, ScrollDown(rendered.below))
        /\ \A k \in 1..BucketCount, toggle \in BOOLEAN :
              ClickBucket(k, toggle) =>
                  calls' = Append(calls, Invocation(Options.onSelectAnnotations,
                                                    <<rendered.buckets[k].tags, toggle>>))
        /\ \A k \in 1..BucketCount :
              HoverBucket(k) =>
                  calls' = Append(calls, Invocation(Options.onFocusAnnotations,
                                                    <<rendered.buckets[k].tags>>))
        /\ callbackFields' = callbackFields
      ]_vars

\* C5 witness: the "above" indicator of the scenario was clicked, after several
\* update() calls.
AboveClicked ==
    /\ lastUpdate.positions = FullScenario
    /\ everThrew
    /\ calls = <<ScrollUp({"a"})>>

\* C6: destroy() empties the container and takes the container node, and only
\* it, out of the mount point, keeping the other children and their order; a
\* destroy() or update() after the first destroy() leaves the mount point as it is.
DestroyReleasesOnlyOwnNode ==
    [][ /\ Destroy =>
              /\ rendered' = NoBar
              /\ mountChildren' = SelectSeq(mountChildren, LAMBDA c : c # BucketsContainer)
        /\ (destroyCalls > 0 /\ (Destroy \/ UpdateCall)) => mountChildren' = mountChildren
      ]_vars

\* C6 witness: destroy() was called twice and the page's own nodes are still in
\* the mount point, in order.
DestroyedTwice ==
    /\ destroyCalls = 2
    /\ mountChildren = <<"x", "y">>
    /\ lastUpdate.positions # <<>>

\* C7: when the latest update() call threw (and only when its clustering failed),
\* the bar still shows the clustering of the last update() call that returned;
\* an update() with valid positions after a failure renders that clustering.
FailedUpdateKeepsLastGood ==
    Mounted =>
        /\ lastUpdate.outcome = "throw" <=> ClusteringOf(lastUpdate) = ValidationError
        /\ lastUpdate.outcome = "throw" =>
              rendered.kind = "return" /\ rendered = ClusteringOf(lastGood)
        /\ (everThrew /\ lastUpdate.outcome = "return") =>
              rendered = ClusteringOf(lastUpdate)

\* C7 witness: the latest update() call threw while buckets were shown.
ThrewWhileShowing ==
    /\ Mounted /\ lastUpdate.outcome = "throw"
    /\ Len(rendered.buckets) > 0
    /\ lastGood.positions # <<>>

(***************************************************************************)
(* links store module                                                      *)
(***************************************************************************)
Null == <<>>                       \* null
Some(v) == <<v>>                   \* an object
Value(o) == o[1]

LinkNames == {"signup", "user"}
ParamNames == {"a", "b"}
\* A template is a sequence of segments; ":a" and ":b" are parameter segments and
\* the empty sequence is the empty string.
Segment(key) == IF key = "a" THEN ":a" ELSE ":b"
Templates == {<<>>, <<"/">>, <<"/", ":a">>, <<":a", ":b">>}
LinkMaps == UNION {[names -> Templates] : names \in SUBSET LinkNames}
ParamValue == "v"
ParamSets == UNION {[keys -> {ParamValue}] : keys \in SUBSET ParamNames}

init == Null

\* Faulty variant: UPDATE_LINKS merging the new links into the old state.
UPDATE_LINKS_merging(state, action) ==
    LET old == IF state = Null THEN <<>> ELSE Value(state)
        new == action.newLinks
    IN  Some([n \in DOMAIN old \cup DOMAIN new |->
                 IF n \in DOMAIN new THEN new[n] ELSE old[n]])
UPDATE_LINKS(state, action) == Some(action.newLinks)

updateLinks(newLinks) == [type |-> "UPDATE_LINKS", newLinks |-> newLinks]

Uses(template, key) == \E j \in 1..Len(template) : template[j] = Segment(key)
FirstUse(template, key) ==
    Min({j \in 1..Len(template) : template[j] = Segment(key)})
RECURSIVE ReplaceKeys(_, _, _)
ReplaceKeys(url, params, keys) ==
    IF keys = <<>> THEN url
    ELSE LET key == Head(keys)
         IN  ReplaceKeys(IF key \in DOMAIN params /\ Uses(url, key)
                         THEN [url EXCEPT ![FirstUse(url, key)] = params[key]]
                         ELSE url,
                         params, Tail(keys))
\* url: the template with the first ":key" of each given param replaced by its
\* value; unusedParams: the given params whose ":key" the template does not hold.
replaceURLParams(template, params) ==
    [url          |-> ReplaceKeys(template, params, <<"a", "b">>),
     unusedParams |-> {key \in DOMAIN params : ~Uses(template, key)}]

Return(v) == [kind |-> "return", value |-> v]
Throw(message) == [kind |-> "throw", value |-> <<message>>]

getLink(state, linkName, params) ==
    IF state = Null THEN Return(<<>>)
    ELSE IF linkName \notin DOMAIN Value(state) \/ Value(state)[linkName] = <<>>
    THEN Throw("Unknown link")
    ELSE LET replaced == replaceURLParams(Value(state)[linkName], params)
         IN  IF replaced.unusedParams # {} THEN Throw("Unused parameters")
             ELSE Return(replaced.url)

InitLinks ==
    /\ IdleClusterer /\ IdleBar /\ IdleEditor /\ IdleMentions
    /\ links = init
    /\ lastNewLinks = Null
    /\ previousLinks = Null
    /\ linkResult = Null

DispatchUpdateLinks(newLinks) ==
    /\ links' = UPDATE_LINKS(links, updateLinks(newLinks))
    /\ lastNewLinks' = Some(newLinks)
    /\ previousLinks' = links
    /\ UNCHANGED <<linkResult, clustererVars, barVars, editorVars, mentionVars>>

SelectGetLink(linkName, params) ==
    /\ linkResult' = Some([linkName |-> linkName, params |-> params,
                           outcome |-> getLink(links, linkName, params)])
    /\ UNCHANGED <<links, lastNewLinks, previousLinks, clustererVars, barVars,
                   editorVars, mentionVars>>

LinksUpdated == \E newLinks \in LinkMaps : DispatchUpdateLinks(newLinks)
LinkRead == \E linkName \in LinkNames, params \in ParamSets : SelectGetLink(linkName, params)

NextLinks == LinksUpdated \/ LinkRead

SpecLinks == InitLinks /\ [][NextLinks]_vars

TagNames == {"x", "y", "z"}
TagInputs == TagNames \cup {""}            \* what the TagEditor may hand over
Texts == {"", "note"}

IndexOf(list, item) ==
    IF \E j \in 1..Len(list) : list[j] = item
    THEN Min({j \in 1..Len(list) : list[j] = item})
    ELSE -1
Splice(list, index) == SubSeq(list, 1, index - 1) \o SubSeq(list, index + 1, Len(list))

NoEmptyNoDuplicate(list) ==
    /\ \A j \in 1..Len(list) : list[j] # ""
    /\ \A j, k \in 1..Len(list) : list[j] = list[k] => j = k
TagLists == {list \in SeqsUpTo(TagNames, Cardinality(TagNames)) : NoEmptyNoDuplicate(list)}

\* store.createDraft(draft.annotation, {...draft, tags})
onEditTags(d, tags) == [d EXCEPT !.tags = tags]

\* Effect of a handler: the value it returns, the draft it leaves in the store
\* and the lists it hands to tagsService.store.
Effect(returns, d, stored) == [returns |-> returns, draft |-> d, stored |-> stored]

\* Faulty variant: onAddTag without the duplicate check.
onAddTagAllowingDuplicates(d, newTag) ==
    IF newTag = "" THEN Effect(FALSE, d, <<>>)
    ELSE LET tagList == Append(d.tags, newTag)
         IN  Effect(TRUE, onEditTags(d, tagList), <<tagList>>)
onAddTag(d, newTag) ==
    IF newTag = "" \/ IndexOf(d.tags, newTag) >= 0 THEN Effect(FALSE, d, <<>>)
    ELSE LET tagList == Append(d.tags, newTag)
         IN  Effect(TRUE, onEditTags(d, tagList), <<tagList>>)

onRemoveTag(d, tag) ==
    LET index == IndexOf(d.tags, tag)
    IN  IF index >= 0 THEN Effect(TRUE, onEditTags(d, Splice(d.tags, index)), <<>>)
        ELSE Effect(FALSE, d, <<>>)

\* store.createDraft(draft.annotation, {...draft, text})
onEditText(d, text) == [d EXCEPT !.text = text]

InitEditor ==
    /\ IdleClusterer /\ IdleBar /\ IdleLinks /\ IdleMentions
    /\ draft \in [tags : TagLists, text : Texts]
    /\ tagsStored = <<>>
    /\ tagCall = <<>>

Handled(name, arg, effect) ==
    /\ draft' = effect.draft
    /\ tagsStored' = tagsStored \o effect.stored
    /\ tagCall' = <<[handler |-> name, arg |-> arg, returns |-> effect.returns,
                     before |-> draft]>>
    /\ UNCHANGED <<clustererVars, barVars, linksVars, mentionVars>>

AddTag(newTag) ==
    /\ Len(tagsStored) < MaxStored
    /\ Handled("onAddTag", newTag, onAddTag(draft, newTag))

RemoveTag(tag) == Handled("onRemoveTag", tag, onRemoveTag(draft, tag))

EditText(text) ==
    /\ text # draft.text
    /\ draft' = onEditText(draft, text)
    /\ UNCHANGED <<tagsStored, tagCall, clustererVars, barVars, linksVars, mentionVars>>

TagAdded == \E newTag \in TagInputs : AddTag(newTag)
TagRemoved == \E tag \in TagInputs : RemoveTag(tag)
TextEdited == \E text \in Texts : EditText(text)

NextEditor == TagAdded \/ TagRemoved \/ TextEdited

SpecEditor == InitEditor /\ [][NextEditor]_vars

Has(list, item) == \E j \in 1..Len(list) : list[j] = item

\* C9: the draft's tag list never holds an empty or a duplicate tag; onAddTag
\* returns false and changes neither the draft nor what the tags service stored
\* when the tag is empty or already present, and otherwise appends the tag at the
\* end, stores the new list and returns true; onRemoveTag returns false and leaves
\* the draft unchanged when the tag is absent, and otherwise removes exactly that
\* tag, keeping the others in order, and returns true.
TagHandlersContract ==
    /\ [](NoEmptyNoDuplicate(draft.tags))
    /\ [][ \A t \in TagInputs :
             /\ AddTag(t) =>
                  IF t = "" \/ Has(draft.tags, t)
                  THEN /\ tagCall'[1].returns = FALSE
                       /\ draft' = draft /\ tagsStored' = tagsStored
                  ELSE /\ tagCall'[1].returns = TRUE
                       /\ draft' = [draft EXCEPT !.tags = Append(draft.tags, t)]
                       /\ tagsStored' = Append(tagsStored, draft'.tags)
             /\ RemoveTag(t) =>
                  IF ~Has(draft.tags, t)
                  THEN tagCall'[1].returns = FALSE /\ draft' = draft
                  ELSE /\ tagCall'[1].returns = TRUE
                       /\ ~Has(draft'.tags, t)
                       /\ draft'.tags = SelectSeq(draft.tags, LAMBDA u : u # t)
                       /\ draft'.text = draft.text
                       /\ tagsStored' = tagsStored
         ]_vars

\* C9 witness: onAddTag has just refused a tag the draft already holds, after
\* tags had been added.
DuplicateRefused ==
    /\ tagCall # <<>>
    /\ tagCall[1].handler = "onAddTag" /\ tagCall[1].returns = FALSE
    /\ tagCall[1].arg # "" /\ Has(draft.tags, tagCall[1].arg)
    /\ Len(tagsStored) > 0 /\ Len(draft.tags) >= 2

(***************************************************************************)
(* AnnotationEditor: users that can be mentioned                           *)
(***************************************************************************)
GroupIds == {"g1", "g2", "g3"}
\* Response of api.mentions.users.read for a group.
UsersOf(g) ==
    IF g = "g1" THEN <<[name |-> "alice"]>>
    ELSE IF g = "g2" THEN <<[name |-> "bob"]>>
    ELSE <<[name |-> "alice"], [name |-> "carol"]>>
Names(users) == [j \in 1..Len(users) |-> users[j].name]

\* The effect of the first render: fetchUsers(userId, group) is in flight.
InitMentions ==
    /\ IdleClusterer /\ IdleBar /\ IdleLinks /\ IdleEditor
    /\ group \in GroupIds
    /\ pending = {[id |-> 1, groupid |-> group]}
    /\ userList = <<>>
    /\ fetches = 1
    /\ rejected = FALSE

\* The annotation's group changes: the effect runs again and starts a request;
\* requests already in flight stay in flight.
GroupChanges(g) ==
    /\ g # group
    /\ fetches < MaxFetches
    /\ group' = g
    /\ fetches' = fetches + 1
    /\ pending' = pending \cup {[id |-> fetches + 1, groupid |-> g]}
    /\ UNCHANGED <<userList, rejected, clustererVars, barVars, linksVars, editorVars>>

\* A response arrives: setUserList(users.map(user => user.name)).
Resolves(request) ==
    /\ pending' = pending \ {request}
    /\ userList' = Names(UsersOf(request.groupid))
    /\ UNCHANGED <<group, fetches, rejected, clustererVars, barVars, linksVars, editorVars>>

\* A request fails: .catch(console.error), nothing else.
Rejects(request) ==
    /\ pending' = pending \ {request}
    /\ rejected' = TRUE
    /\ UNCHANGED <<group, fetches, userList, clustererVars, barVars, linksVars, editorVars>>

GroupChanged == \E g \in GroupIds : GroupChanges(g)
Resolved == \E request \in pending : Resolves(request)
Rejected == \E request \in pending : Rejects(request)

NextMentions == GroupChanged \/ Resolved \/ Rejected

SpecMentions == InitMentions /\ [][NextMentions]_vars

\* C10: once every request has been answered (none rejected), the user list shown
\* is the one of the annotation's current group, whatever the order in which the
\* responses arrived.
LatestGroupWins ==
    (pending = {} /\ ~rejected) => userList = Names(UsersOf(group))

====
